---- MODULE Spec2Model ----
(***************************************************************************)
(* Model of the retry engine of src/src/async_retry.rs: the Retry struct,  *)
(* its builder methods (sleep, when, notify) and its Future::poll state    *)
(* machine over State::{Idle, Polling, Sleeping}.                          *)
(*                                                                         *)
(* The engine's collaborators are supplied by the caller and are opaque to *)
(* it.  A slot of the struct holds the identity of the collaborator; what  *)
(* the collaborator answers when the engine calls it is an input of the    *)
(* step that makes the call:                                               *)
(*   future_fn  each invocation yields a future that resolves to Ok(v) or  *)
(*              Err(x), on its first poll or after a wake-up;              *)
(*   retryable  the default closure answers true, any other closure (an    *)
(*              FnMut) answers true or false;                              *)
(*   backoff    the policy built by builder.build(), as the delays it has  *)
(*              still to yield: next() pops one, and is None when empty;   *)
(*   sleep_fn   each sleep(dur) is complete on its first poll or after a   *)
(*              wake-up.                                                   *)
(* Every call the engine makes on a collaborator is appended to `trace`.   *)
(***************************************************************************)
EXTENDS Integers, Sequences, FiniteSets, TLC

\* ---------------------------------------------------------------- bounds
MaxDelays == 2
\* an engine over a policy that never yields None is followed for this many
\* invocations
MaxCalls == 3

\* ---------------------------------------------------------------- values
Errors == {"E1", "E2"}
Values == {"V"}
Durations == {1, 2}
ArgValues == {"A1", "A2"}

Ok(v) == [ok |-> TRUE, val |-> v]
Err(x) == [ok |-> FALSE, val |-> x]
Outcomes == {Ok(v) : v \in Values} \cup {Err(x) : x \in Errors}
NoResult == [ok |-> FALSE, val |-> "-"]

SeqsUpTo(S, n) == UNION {[1..k -> S] : k \in 0..n}
Policies == SeqsUpTo(Durations, MaxDelays)
\* A policy that never yields None: it yields its delays round and round.
\* It is the delays followed by the mark Forever.
Forever == 0 - 1
UnboundedPolicies ==
    {d \o <<Forever>> : d \in SeqsUpTo(Durations, MaxDelays) \ {<<>>}}

\* Retry::new's defaults
DefaultRetryable == "always_true"
DefaultNotify == "noop"
DefaultSleeper == "DefaultSleeper"
Predicates == {DefaultRetryable, "RN"}
Notifiers == {DefaultNotify, "NN"}
Sleepers == {DefaultSleeper, "SN"}
Operations == {"FutureFn"}

\* ---------------------------------------------------------------- State
Idle == [tag |-> "Idle", ready |-> FALSE, out |-> NoResult, dur |-> 0]
Polling(r, o) == [tag |-> "Polling", ready |-> r, out |-> o, dur |-> 0]
Sleeping(r, d) == [tag |-> "Sleeping", ready |-> r, out |-> NoResult, dur |-> d]
Dropped == [tag |-> "Dropped", ready |-> FALSE, out |-> NoResult, dur |-> 0]

VARIABLES backoff, retryable, notify, sleep_fn, args, state, future_fn,
          policy, trace, result, dropped

vars == <<backoff, retryable, notify, sleep_fn, args, state, future_fn,
          policy, trace, result, dropped>>

\* ---------------------------------------------------------------- trace
\* An event is <<kind, who-or-what, number>>.
Ev(k, s, n) == <<k, s, n>>
Positions(k) == {p \in DOMAIN trace : trace[p][1] = k}
Count(k) == Cardinality(Positions(k))
B2N(b) == IF b THEN 1 ELSE 0
Dec(n) == IF n > 0 THEN n - 1 ELSE 0

\* ---------------------------------------------------------------- inputs
\* What the collaborators answer during one poll that may make up to m
\* invocations: the first n futures the poll creates are complete on their
\* first poll; ops[i] is the outcome of the i-th invocation the poll makes;
\* prs[i] is the answer of the i-th call of a caller-supplied predicate.
\* Answers the poll cannot reach are fixed, so that no two choices give the
\* same poll:
\*  - a poll makes no invocation after a success, so ops is some failures
\*    followed by successes; of the n futures at most k = (n + 1) \div 2 are
\*    operation futures, so at most k failures are seen;
\*  - a poll makes no predicate call after a false, so prs is some trues
\*    followed by falses; the false, if any, answers the last failure seen,
\*    which is the j-th call, or the (j + 1)-th when the poll starts with a
\*    failure already at hand, for j failures in ops.
Min(x, y) == IF x <= y THEN x ELSE y
OpsOf(fails, v, m) ==
    [i \in 1..m |-> IF i <= Len(fails) THEN Err(fails[i]) ELSE Ok(v)]
OpAnswers(k, m) ==
    {OpsOf(f, v, m) : f \in SeqsUpTo(Errors, Min(k, m)), v \in Values}
Failures(ops) == Cardinality({i \in DOMAIN ops : ~ops[i].ok})
PredAnswers(rf, j, m) ==
    IF rf = DefaultRetryable
    THEN {[i \in 1..m |-> TRUE]}
    ELSE {[i \in 1..m |-> i <= t] : t \in {j - 1, j, m} \cap 0..m}
Answers(rf, m) ==
    UNION {UNION {[n : {i}, ops : {o}, prs : PredAnswers(rf, Failures(o), m)] :
                     o \in OpAnswers((i + 1) \div 2, m)} :
              i \in 0..(2 * m - 1)}

\* ---------------------------------------------------------------- backoff
\* variant: the last delay of the policy is taken for the terminal signal
BackoffNext_early(b) == IF Len(b) <= 1 THEN 0 ELSE Head(b)
\* Backoff::next(): Some(dur) is the duration, None is 0.
BackoffNext(b) == IF Len(b) = 0 THEN 0 ELSE Head(b)
\* variant: an advance moves the cursor two delays on
BackoffRest_skip(b) == IF Len(b) <= 1 THEN <<>> ELSE Tail(Tail(b))
BackoffRest(b) ==
    IF Len(b) = 0 THEN b
    ELSE IF b[Len(b)] = Forever
         THEN SubSeq(b, 2, Len(b) - 1) \o <<Head(b), Forever>>
         ELSE Tail(b)

\* ---------------------------------------------------------------- poll
Engine == [backoff |-> backoff, retryable |-> retryable, notify |-> notify,
           sleep_fn |-> sleep_fn, args |-> args, state |-> state,
           future_fn |-> future_fn, trace |-> trace, result |-> result]

\* variant: the invocation takes the args out of the engine
CallOp_take(e, imm, out) ==
    [e EXCEPT !.state = Polling(imm, IF imm THEN out ELSE NoResult),
              !.args = "taken",
              !.trace = Append(@, Ev("call", e.args, 0))]
\* State::Idle arm: invoke the operation with the stored args.  The new
\* future resolves to out, on its first poll iff imm.
CallOp(e, imm, out) ==
    [e EXCEPT !.state = Polling(imm, IF imm THEN out ELSE NoResult),
              !.trace = Append(@, Ev("call", e.args, 0))]

\* variant: the sleep is started before the notifier is called
RetrySome_sleep_first(e, err, dur, imm) ==
    [e EXCEPT !.state = Sleeping(imm, dur),
              !.trace = @ \o <<Ev("sleep", e.sleep_fn, dur),
                               Ev("notify", err.val, dur)>>]
\* variant: the failure is notified, the sleep started, and the failure is
\* returned as well
RetrySome_and_return(e, err, dur, imm) ==
    [e EXCEPT !.state = Sleeping(imm, dur),
              !.result = err,
              !.trace = @ \o <<Ev("notify", err.val, dur),
                               Ev("sleep", e.sleep_fn, dur)>>]
\* variant: the failure is notified and the operation invoked again without
\* waiting for the delay
RetrySome_no_wait(e, err, dur, imm) ==
    [e EXCEPT !.state = Idle,
              !.trace = Append(@, Ev("notify", err.val, dur))]
\* variant: the sleep is started without calling the notifier
RetrySome_silent(e, err, dur, imm) ==
    [e EXCEPT !.state = Sleeping(imm, dur),
              !.trace = Append(@, Ev("sleep", e.sleep_fn, dur))]
\* Some(dur) arm: notify, then start the sleep.
RetrySome(e, err, dur, imm) ==
    [e EXCEPT !.state = Sleeping(imm, dur),
              !.trace = @ \o <<Ev("notify", err.val, dur),
                               Ev("sleep", e.sleep_fn, dur)>>]

\* variant: the notifier is called before the match, also on None
RetryNext_notify_always(e, err, imm) ==
    LET dur == BackoffNext(e.backoff)
        e1 == [e EXCEPT !.backoff = BackoffRest(@),
                        !.trace = @ \o <<Ev("next", "-", dur),
                                         Ev("notify", err.val, dur)>>]
    IN IF dur = 0
       THEN [e1 EXCEPT !.result = err]
       ELSE [e1 EXCEPT !.state = Sleeping(imm, dur),
                       !.trace = Append(@, Ev("sleep", e.sleep_fn, dur))]
\* variant: on None the engine returns the first failure it has seen
RetryNext_first_error(e, err, imm) ==
    LET dur == BackoffNext(e.backoff)
        e1 == [e EXCEPT !.backoff = BackoffRest(@),
                        !.trace = Append(@, Ev("next", "-", dur))]
        first == SelectSeq(e.trace, LAMBDA ev : ev[1] = "err")[1][2]
    IN IF dur = 0
       THEN [e1 EXCEPT !.result = Err(first)]
       ELSE RetrySome(e1, err, dur, imm)
\* variant: on None the engine asks the backoff once more before giving up
RetryNext_ask_again(e, err, imm) ==
    LET dur == BackoffNext(e.backoff)
        e1 == [e EXCEPT !.backoff = BackoffRest(@),
                        !.trace = Append(@, Ev("next", "-", dur))]
        dur2 == BackoffNext(e1.backoff)
        e2 == [e1 EXCEPT !.backoff = BackoffRest(@),
                         !.trace = Append(@, Ev("next", "-", dur2))]
    IN IF dur = 0
       THEN (IF dur2 = 0 THEN [e2 EXCEPT !.result = err]
             ELSE RetrySome(e2, err, dur2, imm))
       ELSE RetrySome(e1, err, dur, imm)
\* variant: the engine gives up after two retries whatever the backoff yields
RetryNext_ceiling(e, err, imm) ==
    LET dur == BackoffNext(e.backoff)
        e1 == [e EXCEPT !.backoff = BackoffRest(@),
                        !.trace = Append(@, Ev("next", "-", dur))]
        retries == Len(SelectSeq(e.trace, LAMBDA ev : ev[1] = "notify"))
    IN IF dur = 0 \/ retries >= 2
       THEN [e1 EXCEPT !.result = err]
       ELSE RetrySome(e1, err, dur, imm)
\* match this.backoff.next()
RetryNext(e, err, imm) ==
    LET dur == BackoffNext(e.backoff)
        e1 == [e EXCEPT !.backoff = BackoffRest(@),
                        !.trace = Append(@, Ev("next", "-", dur))]
    IN IF dur = 0
       THEN [e1 EXCEPT !.result = err]
       ELSE RetrySome(e1, err, dur, imm)

\* variant: the predicate is called and its answer ignored
RetryErr_ignore(e, err, r, imm) ==
    LET e1 == [e EXCEPT !.trace = @ \o <<Ev("err", err.val, 0),
                                        Ev("retryable", err.val, B2N(r))>>]
    IN RetryNext(e1, err, imm)
\* variant: the backoff is advanced before the predicate is called
RetryErr_backoff_first(e, err, r, imm) ==
    LET dur == BackoffNext(e.backoff)
        e1 == [e EXCEPT !.backoff = BackoffRest(@),
                        !.trace = @ \o <<Ev("err", err.val, 0),
                                         Ev("retryable", err.val, B2N(r))>>]
        e2 == [e1 EXCEPT !.trace = Append(@, Ev("next", "-", dur))]
    IN IF ~r THEN [e1 EXCEPT !.result = err]
       ELSE IF dur = 0 THEN [e2 EXCEPT !.result = err]
       ELSE RetrySome(e2, err, dur, imm)
\* Err(err) arm: the predicate, which answers r, then the backoff.
RetryErr(e, err, r, imm) ==
    LET e1 == [e EXCEPT !.trace = @ \o <<Ev("err", err.val, 0),
                                        Ev("retryable", err.val, B2N(r))>>]
    IN IF ~r
       THEN [e1 EXCEPT !.result = err]
       ELSE RetryNext(e1, err, imm)

\* variant: the backoff is advanced after every attempt, a success included
OnOutcome_advance(e, r, imm) ==
    IF e.state.out.ok
    THEN [e EXCEPT !.result = e.state.out,
                   !.backoff = BackoffRest(@),
                   !.trace = @ \o <<Ev("ok", e.state.out.val, 0),
                                    Ev("next", "-", BackoffNext(e.backoff))>>]
    ELSE RetryErr(e, e.state.out, r, imm)
\* State::Polling arm once the operation's future is Ready.
OnOutcome(e, r, imm) ==
    IF e.state.out.ok
    THEN [e EXCEPT !.result = e.state.out,
                   !.trace = Append(@, Ev("ok", e.state.out.val, 0))]
    ELSE RetryErr(e, e.state.out, r, imm)

\* variant: the completed delay is started again instead of leaving Sleeping
OnSlept_rearm(e) ==
    [e EXCEPT !.state = Sleeping(FALSE, e.state.dur)]
\* State::Sleeping arm once the delay is Ready.
OnSlept(e) ==
    [e EXCEPT !.state = Idle, !.trace = Append(@, Ev("slept", "-", 0))]

\* ready!(..) on a future that is not complete: poll returns Poll::Pending
\* and leaves the engine as it is.
YieldPending(e) == e

\* The loop of Retry::poll; a are the answers not yet used.
RECURSIVE poll(_, _)
\* variant: once the delay is Ready the engine goes to Idle and returns
\* Pending, leaving the next invocation to the next poll
poll_yield_after_sleep(e, a) ==
    IF e.result # NoResult THEN e
    ELSE IF e.state.tag = "Idle" THEN
        poll(CallOp(e, a.n > 0, Head(a.ops)),
             [a EXCEPT !.n = Dec(@), !.ops = Tail(@)])
    ELSE IF e.state.tag = "Polling" THEN
        IF e.state.ready
        THEN poll(OnOutcome(e, Head(a.prs), a.n > 0),
                  [a EXCEPT !.n = Dec(@), !.prs = Tail(@)])
        ELSE YieldPending(e)
    ELSE
        IF e.state.ready THEN OnSlept(e)
        ELSE YieldPending(e)
\* variant: after invoking the operation the engine returns Pending without
\* polling the future it has just created
poll_yield_after_call(e, a) ==
    IF e.result # NoResult THEN e
    ELSE IF e.state.tag = "Idle" THEN CallOp(e, a.n > 0, Head(a.ops))
    ELSE IF e.state.tag = "Polling" THEN
        IF e.state.ready
        THEN poll(OnOutcome(e, Head(a.prs), a.n > 0),
                  [a EXCEPT !.n = Dec(@), !.prs = Tail(@)])
        ELSE YieldPending(e)
    ELSE
        IF e.state.ready THEN poll(OnSlept(e), a)
        ELSE YieldPending(e)
poll(e, a) ==
    IF e.result # NoResult THEN e
    ELSE IF e.state.tag = "Idle" THEN
        poll(CallOp(e, a.n > 0, Head(a.ops)),
             [a EXCEPT !.n = Dec(@), !.ops = Tail(@)])
    ELSE IF e.state.tag = "Polling" THEN
        IF e.state.ready
        THEN poll(OnOutcome(e, Head(a.prs), a.n > 0),
                  [a EXCEPT !.n = Dec(@), !.prs = Tail(@)])
        ELSE YieldPending(e)
    ELSE
        IF e.state.ready THEN poll(OnSlept(e), a)
        ELSE YieldPending(e)

\* ---------------------------------------------------------------- actions
\* Retryable::retry: Retry::new(self, builder.build(), args)
Init ==
    /\ policy \in Policies
    /\ backoff = policy
    /\ retryable = DefaultRetryable
    /\ notify = DefaultNotify
    /\ sleep_fn = DefaultSleeper
    /\ args \in ArgValues
    /\ future_fn \in Operations
    /\ state = Idle
    /\ trace = <<>>
    /\ result = NoResult
    /\ dropped = FALSE

Done == result # NoResult
NotDriven == trace = <<>> /\ ~dropped

\* Retry::sleep
Sleep ==
    /\ NotDriven
    /\ \E sn \in Sleepers \ {sleep_fn} : sleep_fn' = sn
    /\ state' = Idle
    /\ UNCHANGED <<backoff, retryable, notify, args, future_fn, policy,
                   trace, result, dropped>>

\* variant: when() rebuilds the engine with the default notifier
When_drops_notify ==
    /\ NotDriven
    /\ \E rn \in Predicates \ {retryable} : retryable' = rn
    /\ notify' = DefaultNotify
    /\ UNCHANGED <<backoff, sleep_fn, args, state, future_fn, policy,
                   trace, result, dropped>>
\* Retry::when
When ==
    /\ NotDriven
    /\ \E rn \in Predicates \ {retryable} : retryable' = rn
    /\ UNCHANGED <<backoff, notify, sleep_fn, args, state, future_fn, policy,
                   trace, result, dropped>>

\* Retry::notify
Notify ==
    /\ NotDriven
    /\ \E nn \in Notifiers \ {notify} : notify' = nn
    /\ UNCHANGED <<backoff, retryable, sleep_fn, args, state, future_fn,
                   policy, trace, result, dropped>>

\* The most invocations one poll can make: one more than the policy has
\* delays left; over a policy that never yields None, what is left of
\* MaxCalls.
Lookahead ==
    IF Len(backoff) > 0 /\ backoff[Len(backoff)] = Forever
    THEN MaxCalls - Count("call")
    ELSE Len(backoff) + 1

\* <Retry as Future>::poll, one call
Poll ==
    /\ ~dropped
    /\ ~Done
    /\ \E a \in Answers(retryable, Lookahead) :
         \E e \in {poll(Engine, a)} :
            /\ trace' = e.trace
            /\ state' = e.state
            /\ result' = e.result
            /\ backoff' = e.backoff
            /\ args' = e.args
            /\ retryable' = e.retryable
            /\ notify' = e.notify
            /\ sleep_fn' = e.sleep_fn
            /\ future_fn' = e.future_fn
    /\ UNCHANGED <<policy, dropped>>

\* The operation's pending future completes with some outcome (the waker is
\* notified).
OpComplete ==
    /\ ~dropped
    /\ state.tag = "Polling" /\ ~state.ready
    /\ \E o \in Outcomes : state' = Polling(TRUE, o)
    /\ UNCHANGED <<backoff, retryable, notify, sleep_fn, args, future_fn,
                   policy, trace, result, dropped>>

\* The sleeper's pending delay elapses.
SleepComplete ==
    /\ ~dropped
    /\ state.tag = "Sleeping" /\ ~state.ready
    /\ state' = [state EXCEPT !.ready = TRUE]
    /\ UNCHANGED <<backoff, retryable, notify, sleep_fn, args, future_fn,
                   policy, trace, result, dropped>>

\* variant: the engine is given up but its state and the held future live on
Drop_leak ==
    /\ ~dropped
    /\ Count("drop") = 0
    /\ trace' = Append(trace, Ev("drop", state.tag, 0))
    /\ UNCHANGED <<backoff, retryable, notify, sleep_fn, args, state,
                   future_fn, policy, result, dropped>>
\* variant: the engine is dropped but the future it holds is not released
Drop_keep ==
    /\ ~dropped
    /\ dropped' = TRUE
    /\ trace' = Append(trace, Ev("drop", state.tag, 0))
    /\ UNCHANGED <<backoff, retryable, notify, sleep_fn, args, state,
                   future_fn, policy, result>>
\* The engine is dropped: its fields, the held future included, are dropped.
Drop ==
    /\ ~dropped
    /\ dropped' = TRUE
    /\ state' = Dropped
    /\ trace' = Append(trace, Ev("drop", state.tag, 0))
    /\ UNCHANGED <<backoff, retryable, notify, sleep_fn, args, future_fn,
                   policy, result>>

Next == Sleep \/ When \/ Notify \/ Poll \/ OpComplete \/ SleepComplete \/ Drop

Spec == Init /\ [][Next]_vars

\* The engine is driven to completion: it is not dropped, every pending
\* future completes, and the engine is polled while a poll makes progress.
LiveNext == Sleep \/ When \/ Notify \/ Poll \/ OpComplete \/ SleepComplete
LiveSpec ==
    /\ Init
    /\ [][LiveNext]_vars
    /\ WF_vars(Poll)
    /\ WF_vars(OpComplete)
    /\ WF_vars(SleepComplete)

\* The engine built over a policy that never yields None.
InitUnbounded ==
    /\ policy \in UnboundedPolicies
    /\ backoff = policy
    /\ retryable = DefaultRetryable
    /\ notify = DefaultNotify
    /\ sleep_fn = DefaultSleeper
    /\ args \in ArgValues
    /\ future_fn \in Operations
    /\ state = Idle
    /\ trace = <<>>
    /\ result = NoResult
    /\ dropped = FALSE
UnboundedSpec == InitUnbounded /\ [][Next]_vars

TypeOK ==
    /\ policy \in Policies
    /\ backoff \in Policies
    /\ retryable \in Predicates
    /\ notify \in Notifiers
    /\ sleep_fn \in Sleepers
    /\ args \in ArgValues
    /\ future_fn \in Operations
    /\ state.tag \in {"Idle", "Polling", "Sleeping", "Dropped"}
    /\ state.out \in Outcomes \cup {NoResult}
    /\ result \in Outcomes \cup {NoResult}
    /\ dropped \in BOOLEAN

\* ---------------------------------------------------------------- history
IsFailure(ev) == ev[1] = "err"
IsNotify(ev) == ev[1] = "notify"
IsOutcome(ev) == ev[1] \in {"ok", "err"}
\* the failures observed, the notifier's calls, the outcomes observed
Fails == SelectSeq(trace, IsFailure)
Notifies == SelectSeq(trace, IsNotify)
OutcomesSeen == SelectSeq(trace, IsOutcome)
\* every outcome observed so far is a failure
AlwaysFails == Count("ok") = 0
\* every answer of the predicate so far is true
AcceptsAll == \A p \in Positions("retryable") : trace[p][3] = 1
\* the first invocation succeeded / failed and was rejected by the predicate
FirstOk == Len(OutcomesSeen) >= 1 /\ OutcomesSeen[1][1] = "ok"
FirstRejected ==
    /\ Len(trace) >= 3
    /\ trace[2][1] = "err"
    /\ trace[3] = Ev("retryable", trace[2][2], 0)
\* the i-th notifier call carries the i-th failure and the i-th delay
NotifiedInPolicyOrder(k) ==
    /\ Len(Notifies) = k
    /\ \A i \in 1..k : Notifies[i] = Ev("notify", Fails[i][2], policy[i])

\* ---------------------------------------------------------------- claims

\* C1: an operation that fails on every invocation, under a predicate that
\* accepts every failure and a policy of N delays, is invoked exactly N+1
\* times when the engine resolves, and the engine resolves to the failure of
\* the (N+1)-th invocation.
C1_ExhaustionAfterNPlusOne ==
    (Done /\ AlwaysFails /\ AcceptsAll) =>
        /\ Count("call") = Len(policy) + 1
        /\ Len(Fails) = Len(policy) + 1
        /\ result = Err(Fails[Len(policy) + 1][2])
C1_Witness ==
    /\ Done /\ AlwaysFails /\ AcceptsAll
    /\ Len(policy) = MaxDelays
    /\ Count("call") = MaxDelays + 1

\* C2: when the first invocation succeeds the engine resolves to that value,
\* and the backoff is never advanced, the predicate and the notifier are
\* never called and no sleep is started.
C2_FirstSuccessTouchesNothing ==
    FirstOk =>
        /\ result = Ok(OutcomesSeen[1][2])
        /\ backoff = policy
        /\ Count("call") = 1
        /\ Count("next") = 0
        /\ Count("retryable") = 0
        /\ Count("notify") = 0
        /\ Count("sleep") = 0
C2_Witness == FirstOk /\ Done /\ Len(policy) > 0 /\ retryable # DefaultRetryable

\* C3: when the predicate rejects the failure of the first invocation the
\* engine resolves to that failure after one invocation, without a notifier
\* call or a sleep, whatever the policy holds.
C3_FirstRejectedIsFinal ==
    FirstRejected =>
        /\ result = Err(trace[2][2])
        /\ Count("call") = 1
        /\ Count("notify") = 0
        /\ Count("sleep") = 0
C3_Witness == FirstRejected /\ Done /\ Len(policy) = MaxDelays

\* C4: when the operation fails k times and then succeeds, with every failure
\* accepted and a policy of at least k delays, the engine makes k+1
\* invocations, calls the notifier k times with the i-th failure and the i-th
\* delay, and resolves to the success value; it does not give up on a
\* failure while the predicate accepts and the policy has a delay left.
C4_SuccessAfterKFailures ==
    /\ (Done /\ result.ok) =>
          /\ Count("call") = Len(Fails) + 1
          /\ NotifiedInPolicyOrder(Len(Fails))
          /\ trace[Len(trace)][1] \in {"ok", "drop"}
          /\ result = Ok(OutcomesSeen[Len(OutcomesSeen)][2])
    /\ (Done /\ ~result.ok /\ AcceptsAll) => Len(Fails) = Len(policy) + 1
C4_Witness == Done /\ result.ok /\ Len(Fails) = MaxDelays

\* C5: the notifier is called once for each failure that is followed by a
\* delay, with that failure and the delay the backoff just yielded, and for
\* nothing else: not for a success, not for a rejected failure, not for the
\* failure on which the backoff is exhausted.  An always-failing operation
\* under a policy of N delays gets N notifier calls in policy order.
C5_NotifyOncePerRetry ==
    /\ \A p \in Positions("next") :
          trace[p][3] > 0 =>
              /\ p + 1 \in DOMAIN trace
              /\ trace[p + 1] = Ev("notify", trace[p - 2][2], trace[p][3])
    /\ \A p \in Positions("notify") :
          /\ p > 3
          /\ trace[p - 1] = Ev("next", "-", trace[p][3])
          /\ trace[p][3] > 0
          /\ trace[p - 2] = Ev("retryable", trace[p][2], 1)
          /\ trace[p - 3] = Ev("err", trace[p][2], 0)
    /\ (Done /\ AlwaysFails /\ AcceptsAll) =>
          NotifiedInPolicyOrder(Len(policy))
C5_Witness ==
    /\ Done /\ AlwaysFails /\ AcceptsAll
    /\ Len(policy) = MaxDelays
    /\ Len(Notifies) = MaxDelays
    /\ notify # DefaultNotify

\* C6: for a retried failure the engine observes the failure, calls the
\* predicate, advances the backoff and calls the notifier, in that order and
\* within one poll (the events are adjacent in every state a poll leaves
\* behind); the sleep is started right after the notifier, for the duration
\* the notifier was given, and that is the delay the engine then waits for.
C6_RetryStepOrder ==
    /\ \A p \in Positions("err") :
          /\ p + 1 \in DOMAIN trace
          /\ trace[p + 1][1] = "retryable"
          /\ trace[p + 1][3] = 1 =>
                /\ p + 2 \in DOMAIN trace
                /\ trace[p + 2][1] = "next"
                /\ trace[p + 2][3] > 0 =>
                      /\ p + 4 \in DOMAIN trace
                      /\ trace[p + 3] = Ev("notify", trace[p][2], trace[p + 2][3])
                      /\ trace[p + 4] = Ev("sleep", sleep_fn, trace[p + 2][3])
    /\ \A p \in Positions("sleep") :
          /\ p > 1
          /\ trace[p - 1][1] = "notify"
          /\ trace[p - 1][3] = trace[p][3]
    /\ state.tag = "Sleeping" =>
          /\ Len(Notifies) > 0
          /\ state.dur = Notifies[Len(Notifies)][3]
C6_Witness ==
    /\ state.tag = "Sleeping" /\ ~state.ready
    /\ Len(Notifies) = MaxDelays
    /\ Notifies[1][3] # Notifies[Len(Notifies)][3]

\* C7: the predicate is called once per failure, right after the failure is
\* observed and before the backoff is advanced for it; a false answer, on
\* any attempt, makes that failure the result and leaves the backoff where
\* the retried failures before it left it.
C7_PredicateBeforeBackoff ==
    /\ Count("retryable") = Count("err")
    /\ \A p \in Positions("err") :
          /\ p + 1 \in DOMAIN trace
          /\ trace[p + 1][1] = "retryable"
          /\ trace[p + 1][2] = trace[p][2]
    /\ \A p \in Positions("next") :
          /\ p > 1
          /\ trace[p - 1][1] = "retryable"
          /\ trace[p - 1][3] = 1
    /\ \A p \in Positions("retryable") :
          trace[p][3] = 0 =>
              /\ result = Err(trace[p][2])
              /\ \A q \in DOMAIN trace : q > p => trace[q][1] = "drop"
              /\ Count("next") = Len(Notifies)
              /\ backoff = SubSeq(policy, Len(Notifies) + 1, Len(policy))
C7_Witness ==
    /\ Done
    /\ ~AcceptsAll
    /\ Len(Fails) >= 2
    /\ Len(backoff) >= 1

\* C8: the result is the outcome of the most recent invocation, unchanged:
\* its success value or its failure, never an earlier failure and never an
\* error of the engine's own, also when the backoff ended the retries.
LastOutcome == OutcomesSeen[Len(OutcomesSeen)]
C8_ResultIsLastOutcome ==
    Done =>
        /\ Len(OutcomesSeen) = Count("call")
        /\ result = (IF LastOutcome[1] = "ok"
                     THEN Ok(LastOutcome[2]) ELSE Err(LastOutcome[2]))
        /\ result \in Outcomes
C8_Witness ==
    /\ Done
    /\ AlwaysFails /\ AcceptsAll
    /\ Len(Fails) >= 2
    /\ Fails[1][2] # Fails[Len(Fails)][2]

\* C9: every failure is either retried (notifier called with it, a delay
\* started, and nothing but the end of that delay and a new invocation
\* after it) or is the engine's result; never neither and never both.
Retried(p) ==
    /\ p + 4 <= Len(trace)
    /\ trace[p + 3][1] = "notify"
    /\ trace[p + 3][2] = trace[p][2]
    /\ trace[p + 4][1] = "sleep"
    /\ p + 5 <= Len(trace) => trace[p + 5][1] \in {"slept", "drop"}
    /\ (p + 6 <= Len(trace) /\ trace[p + 5][1] = "slept") =>
           trace[p + 6][1] \in {"call", "drop"}
Final(p) ==
    /\ Done
    /\ result = Err(trace[p][2])
    /\ \A q \in DOMAIN trace :
          q > p => trace[q][1] \notin {"call", "ok", "err"}
C9_RetriedOrFinal ==
    \A p \in Positions("err") : Retried(p) # Final(p)
C9_Witness ==
    /\ Done /\ ~result.ok
    /\ Len(Fails) >= 2
    /\ Len(Notifies) = Len(Fails) - 1

\* C10: after the engine is dropped while a delay is pending, the operation
\* is not invoked and the predicate, the backoff and the notifier are not
\* used.
DroppedWhileSleeping(p) == trace[p] = Ev("drop", "Sleeping", 0)
C10_NothingAfterDropWhileSleeping ==
    \A p \in DOMAIN trace :
        DroppedWhileSleeping(p) =>
            /\ \A q \in DOMAIN trace :
                  q > p => trace[q][1] \notin {"call", "retryable", "next", "notify"}
            /\ backoff = SubSeq(policy, Len(Notifies) + 1, Len(policy))
C10_Witness ==
    /\ dropped
    /\ DroppedWhileSleeping(Len(trace))
    /\ Len(backoff) >= 1

\* C11: dropping the engine in any phase releases the future it holds: after
\* the drop no operation future and no delay of the engine is outstanding,
\* and the engine makes no further call on any collaborator.
Outstanding == state.tag \in {"Polling", "Sleeping"}
C11_DropReleasesSuspension ==
    /\ dropped => ~Outstanding
    /\ \A p \in Positions("drop") :
          /\ p = Len(trace)
          /\ trace[p][2] \in {"Idle", "Polling", "Sleeping"}
C11_Witness ==
    /\ dropped
    /\ trace[Len(trace)] = Ev("drop", "Polling", 0)
    /\ Count("call") = MaxDelays + 1

\* C12: with a bounded policy, futures that all complete and an engine that
\* is polled whenever it can make progress, the engine eventually resolves.
C12_EventuallyResolves == <>Done
C12_Witness ==
    /\ Done
    /\ Count("slept") = MaxDelays
    /\ Len(policy) = MaxDelays

\* C13 (as stated): no step of the engine both finishes a delay and starts
\* an invocation of the operation.
C13_NoInvocationInDelayStep ==
    [][~(Count("slept")' > Count("slept") /\ Count("call")' > Count("call"))]_vars

\* C13 (amended): the poll that finds the delay complete moves the engine
\* from Sleeping to Idle and goes on, in the same poll, to invoke the
\* operation: every completed delay is followed at once by exactly one
\* invocation, and the engine is never left in Idle after a delay.
C13_DelayStepInvokesOnce ==
    /\ \A p \in Positions("slept") :
          /\ p + 1 \in DOMAIN trace
          /\ trace[p + 1][1] = "call"
          /\ p + 2 \in DOMAIN trace => trace[p + 2][1] # "call"
    /\ (state.tag = "Idle" /\ ~dropped) => trace = <<>>
C13_Witness ==
    /\ Count("slept") = MaxDelays
    /\ state.tag = "Polling"
    /\ ~state.ready

\* C14: a poll runs the state machine until it returns a result or is
\* blocked on a future that is not complete: after every poll that returns
\* Pending the engine holds an operation future or a delay that is pending,
\* and it is not in Idle.
C14_YieldsOnlyAtSuspension ==
    [][(trace' # trace /\ ~dropped' /\ ~Done') =>
          /\ state'.tag \in {"Polling", "Sleeping"}
          /\ ~state'.ready]_vars
C14_Witness ==
    /\ ~Done /\ ~dropped
    /\ state.tag = "Sleeping" /\ ~state.ready
    /\ Count("call") = MaxDelays

\* C15: the engine has at most one future outstanding, an operation future
\* or a delay and never both, and between two consecutive invocations there
\* is exactly one failure accepted by the predicate, one backoff advance
\* that yields a delay, one notifier call and one completed delay.
OpsInFlight == Count("call") - Len(OutcomesSeen)
DelaysInFlight == Count("sleep") - Count("slept")
C15_OneSuspensionAtATime ==
    /\ OpsInFlight \in 0..1
    /\ DelaysInFlight \in 0..1
    /\ OpsInFlight + DelaysInFlight <= 1
    /\ state.tag = "Polling" => DelaysInFlight = 0
    /\ state.tag = "Sleeping" => (OpsInFlight = 0 /\ DelaysInFlight = 1)
    /\ \A p \in Positions("call") :
          p > 1 =>
              /\ p > 7
              /\ trace[p - 7][1] = "call"
              /\ trace[p - 6][1] = "err"
              /\ trace[p - 5] = Ev("retryable", trace[p - 6][2], 1)
              /\ trace[p - 4][1] = "next" /\ trace[p - 4][3] > 0
              /\ trace[p - 3][1] = "notify"
              /\ trace[p - 2][1] = "sleep"
              /\ trace[p - 1][1] = "slept"
C15_Witness ==
    /\ Count("call") = MaxDelays + 1
    /\ state.tag = "Polling"
    /\ OpsInFlight = 1

\* C16: the advance of the backoff that returns the terminal signal is the
\* last advance of the run, and the engine resolves in the poll that made
\* it, to the failure it was made for.
C16_TerminalIsLastAdvance ==
    \A p \in Positions("next") :
        trace[p][3] = 0 =>
            /\ Done
            /\ result = Err(trace[p - 2][2])
            /\ \A q \in DOMAIN trace : q > p => trace[q][1] = "drop"
            /\ Count("next") = Len(Notifies) + 1
C16_Witness ==
    /\ Done
    /\ Len(policy) = MaxDelays
    /\ \E p \in Positions("next") : trace[p][3] = 0

\* C17: the engine has no ceiling of its own: over a policy that never
\* yields None, while the operation fails and the predicate accepts, the
\* engine does not resolve, the backoff is never exhausted, and the number
\* of invocations passes every bound the model allows.
C17_NoCeilingInEngine ==
    /\ (AlwaysFails /\ AcceptsAll) => ~Done
    /\ \A p \in Positions("next") : trace[p][3] > 0
    /\ Done => (result.ok \/ ~AcceptsAll)
C17_Witness ==
    /\ AlwaysFails /\ AcceptsAll
    /\ ~Done /\ ~dropped
    /\ Count("call") = MaxCalls
    /\ Len(Notifies) = MaxCalls - 1

\* C18: no step of the engine changes the stored args, and every invocation
\* of the operation, the first and each retry, is made with them.
C18_ArgsReusedVerbatim ==
    [][/\ args' = args
       /\ \A p \in DOMAIN trace' :
             trace'[p][1] = "call" => trace'[p][2] = args]_vars
C18_Witness ==
    /\ Count("call") = MaxDelays + 1
    /\ args = "A2"
    /\ \A p \in Positions("call") : trace[p][2] = "A2"

\* C19: an override applied before the first poll replaces its own slot
\* only: the backoff and its cursor, the args, the operation and the two
\* other slots are carried over and the engine is in Idle.  An engine not
\* yet polled is therefore given by its slots alone, whatever the order in
\* which they were set.
OthersKept(slot) ==
    /\ backoff' = backoff /\ policy' = policy
    /\ args' = args /\ future_fn' = future_fn
    /\ trace' = trace /\ result' = result /\ dropped' = dropped
    /\ state' = Idle
    /\ slot # "retryable" => retryable' = retryable
    /\ slot # "notify" => notify' = notify
    /\ slot # "sleep_fn" => sleep_fn' = sleep_fn
C19_OverrideReplacesOwnSlot ==
    [][/\ retryable' # retryable => OthersKept("retryable")
       /\ notify' # notify => OthersKept("notify")
       /\ sleep_fn' # sleep_fn => OthersKept("sleep_fn")
       /\ NotDriven' => (backoff' = policy /\ state' = Idle /\ ~Done')]_vars
C19_Witness ==
    /\ NotDriven
    /\ retryable # DefaultRetryable
    /\ notify # DefaultNotify
    /\ sleep_fn # DefaultSleeper
    /\ Len(policy) = MaxDelays

\* C20: the counts of the engine's calls agree in every state: backoff
\* advances = accepted failures; notifier calls = sleeps started = advances
\* that yielded a delay; predicate calls = failures observed; invocations =
\* 1 + delays completed once the engine has been polled, and never more
\* than 1 + notifier calls.
Accepted == Cardinality({p \in Positions("retryable") : trace[p][3] = 1})
Yielded == Cardinality({p \in Positions("next") : trace[p][3] > 0})
C20_CountersAgree ==
    /\ Count("next") = Accepted
    /\ Count("notify") = Yielded
    /\ Count("sleep") = Yielded
    /\ Count("retryable") = Count("err")
    /\ Count("call") > 0 => Count("call") = 1 + Count("slept")
    /\ Count("call") <= 1 + Count("notify")
    /\ (trace # <<>> /\ trace[1][1] # "drop") => Count("call") > 0
C20_Witness ==
    /\ Count("call") = MaxDelays + 1
    /\ Count("notify") = MaxDelays
    /\ Count("next") = MaxDelays + 1
    /\ Accepted = MaxDelays + 1
====
